---- MODULE Spec2Model ----
(***************************************************************************)
(* A model of the CSV import pipeline of askmyuni-supportsystems:          *)
(* csv_handler.py (read_csv, validate_format), validators.py               *)
(* (validate_assignees, validate_labels), issue_mapper.py                  *)
(* (map_row_to_issue, _parse_labels, enrich_with_github_metadata),         *)
(* github_client.py (the four REST calls) and cli.py (ImportPipeline and   *)
(* main).                                                                  *)
(*                                                                         *)
(* Python strings are sequences of tokens.  The token ";" is the label     *)
(* separator, " " is one whitespace character, and every other token       *)
(* stands for a run of characters that holds neither.  Python's None is    *)
(* the reserved value None, which no string of the model equals.           *)
(***************************************************************************)
EXTENDS Integers, Sequences, FiniteSets, TLC

VARIABLES
    args,             \* argparse result of main: [command, confirm]
    file,             \* the CSV file named by --csv: [fieldnames, lines, fail]
    config,           \* ImportPipeline.config["repository_rules"]
    remote,           \* the GitHub side: [labels, users, issues]
    calls,            \* log of the HTTP requests sent, oldest first
    pc,               \* position of the control flow
    validate_result,  \* main's validate_result (the dict enrich mutates in place)
    enrich_result,    \* main's enrich_result
    import_result,    \* main's import_result
    response,         \* what the user typed at the confirmation prompt
    row_i,            \* import_to_github: number of rows already processed
    created_issues,   \* import_to_github: local list created_issues
    errors,           \* import_to_github: local list errors
    outcomes,         \* log of the per-row outcomes of import_to_github, oldest first
    issue,            \* the issue dict last returned by the mapper or the applier
    row,              \* the row last given to the mapper
    once,             \* the label list the first of two enrich calls returned
    stdout,           \* what main printed, oldest first
    faults,           \* number of requests that have failed so far
    remote0,          \* the GitHub side as it was when the run began
    exit_code         \* the process exit status, NoExit while running

vars == <<args, file, config, remote, calls, pc, validate_result, enrich_result,
          import_result, response, row_i, created_issues, errors, outcomes,
          issue, row, once, stdout, faults, remote0, exit_code>>

-----------------------------------------------------------------------------
(* Bounds of the model.                                                    *)

MaxRows == 2        \* data lines in a CSV file
MaxLabelsLen == 4   \* tokens in a Labels cell of the mapper specification
MaxFaults == 1      \* requests that fail in one run

-----------------------------------------------------------------------------
(* Python values.                                                          *)

None == <<"<None>">>

NoResult == [unset |-> TRUE]

NoExit == -1

\* bool(x) of a str-or-None value: None and '' are falsy.
Truthy(s) == s # None /\ s # <<>>

\* x or y
Or(x, y) == IF Truthy(x) THEN x ELSE y

Range(s) == {s[i] : i \in 1..Len(s)}

\* The sequences of length at most n over S.
SeqsUpTo(S, n) == UNION {[1..k -> S] : k \in 0..n}

\* str.strip(): leading and trailing whitespace removed.
RECURSIVE LStrip(_)
LStrip(s) == IF s # <<>> /\ Head(s) = " " THEN LStrip(Tail(s)) ELSE s

RECURSIVE RStrip(_)
RStrip(s) ==
    IF s # <<>> /\ s[Len(s)] = " " THEN RStrip(SubSeq(s, 1, Len(s) - 1)) ELSE s

Strip(s) == RStrip(LStrip(s))

\* str.split(';'): the parts between the separators, empty parts kept.
RECURSIVE SplitFrom(_, _, _)
SplitFrom(s, i, cur) ==
    IF i > Len(s) THEN <<cur>>
    ELSE IF s[i] = ";" THEN <<cur>> \o SplitFrom(s, i + 1, <<>>)
    ELSE SplitFrom(s, i + 1, Append(cur, s[i]))

Split(s) == SplitFrom(s, 1, <<>>)

\* [f(l) for l in parts]
RECURSIVE MapStrip(_)
MapStrip(parts) ==
    IF parts = <<>> THEN <<>> ELSE <<Strip(Head(parts))>> \o MapStrip(Tail(parts))

\* [l for l in parts if l]
RECURSIVE DropEmpty(_)
DropEmpty(parts) ==
    IF parts = <<>> THEN <<>>
    ELSE IF Head(parts) = <<>> THEN DropEmpty(Tail(parts))
    ELSE <<Head(parts)>> \o DropEmpty(Tail(parts))

\* list(s) of a set s: Python fixes no order, so every order is possible.
ListsOf(S) ==
    {l \in [1..Cardinality(S) -> S] : \A i, j \in 1..Cardinality(S) : l[i] = l[j] => i = j}

\* dict.get(key, default)
Get(d, key, default) == IF key \in DOMAIN d THEN d[key] ELSE default

-----------------------------------------------------------------------------
(* csv_handler.py                                                          *)

REQUIRED_COLUMNS == {"Title", "Description", "Type", "Labels", "Assignee", "Milestone"}

\* csv.DictReader: the cells of a line keyed by the header; a line with fewer
\* cells than the header gets None (restval) for the columns it lacks.
DictRow(fieldnames, cells) ==
    [c \in Range(fieldnames) |->
        LET i == CHOOSE k \in 1..Len(fieldnames) : fieldnames[k] = c
        IN  IF i <= Len(cells) THEN cells[i] ELSE None]

\* any(row.values())
AnyValue(d) == \E c \in DOMAIN d : Truthy(d[c])

\* The loop of read_csv over the first n lines: DictReader skips the lines
\* with no cell at all, read_csv the rows whose values are all empty.
RECURSIVE ParseRows(_, _, _)
ParseRows(fieldnames, lines, n) ==
    IF n = 0 THEN <<>>
    ELSE LET before == ParseRows(fieldnames, lines, n - 1)
             parsed == DictRow(fieldnames, lines[n])
         IN  IF lines[n] = <<>> \/ ~AnyValue(parsed) THEN before
             ELSE Append(before, parsed)

FileError == [row |-> 0, field |-> "file", message |-> [text |-> "Failed to read file"]]

\* read_csv(filepath).  f.fail = 0: the file reads; f.fail = 1: open() or the
\* read of the header raises; f.fail = k + 1: the read of data line k raises.
read_csv(f) ==
    IF f.fail = 1 THEN [rows |-> <<>>, errors |-> <<FileError>>]
    ELSE IF f.fieldnames = <<>>
    THEN [rows |-> <<>>,
          errors |-> <<[row |-> 0, field |-> "headers",
                        message |-> [text |-> "No columns found"]]>>]
    ELSE LET missing_cols == REQUIRED_COLUMNS \ Range(f.fieldnames)
             header_errors ==
                 IF missing_cols # {}
                 THEN <<[row |-> 0, field |-> "headers",
                         message |-> [text |-> "Missing required columns",
                                     cols |-> missing_cols]]>>
                 ELSE <<>>
             n == IF f.fail = 0 THEN Len(f.lines) ELSE f.fail - 2
         IN  [rows |-> ParseRows(f.fieldnames, f.lines, n),
              errors |-> header_errors \o (IF f.fail = 0 THEN <<>> ELSE <<FileError>>)]

TitleError(row_num) ==
    [row |-> row_num, field |-> "Title", message |-> [text |-> "Title is required"]]

TypeError(row_num, type) ==
    [row |-> row_num, field |-> "Type",
     message |-> [text |-> "Type must be 'Epic' or 'Task', got", value |-> type]]

\* row.get('Title', '').strip() raises AttributeError when the cell is None.
FormatRaises(rows) == \E i \in 1..Len(rows) : Get(rows[i], "Title", <<>>) = None

\* validate_format with the Title tested as it stands, not trimmed.
RECURSIVE validate_format_NoStrip(_, _)
validate_format_NoStrip(rows, n) ==
    IF n = 0 THEN <<>>
    ELSE LET r == rows[n]
             row_num == n + 1
         IN  validate_format_NoStrip(rows, n - 1)
             \o (IF Get(r, "Title", <<>>) = <<>>
                 THEN <<TitleError(row_num)>> ELSE <<>>)
             \o (IF Get(r, "Type", None) \notin {<<"Epic">>, <<"Task">>}
                 THEN <<TypeError(row_num, Get(r, "Type", None))>> ELSE <<>>)

\* validate_format returning at the first error it finds.
RECURSIVE validate_format_FirstError(_, _)
validate_format_FirstError(rows, n) ==
    IF n = 0 THEN <<>>
    ELSE LET r == rows[n]
             row_num == n + 1
             before == validate_format_FirstError(rows, n - 1)
         IN  IF before # <<>> THEN before
             ELSE IF Strip(Get(r, "Title", <<>>)) = <<>>
             THEN <<TitleError(row_num)>>
             ELSE IF Get(r, "Type", None) \notin {<<"Epic">>, <<"Task">>}
             THEN <<TypeError(row_num, Get(r, "Type", None))>>
             ELSE <<>>

\* validate_format(rows), for rows on which it does not raise.
RECURSIVE validate_format(_, _)
validate_format(rows, n) ==
    IF n = 0 THEN <<>>
    ELSE LET r == rows[n]
             row_num == n + 1
         IN  validate_format(rows, n - 1)
             \o (IF Strip(Get(r, "Title", <<>>)) = <<>>
                 THEN <<TitleError(row_num)>> ELSE <<>>)
             \o (IF Get(r, "Type", None) \notin {<<"Epic">>, <<"Task">>}
                 THEN <<TypeError(row_num, Get(r, "Type", None))>> ELSE <<>>)

-----------------------------------------------------------------------------
(* github_client.py.  Every call catches every exception of the request and *)
(* returns None for it, so a call never raises: raises is FALSE in every    *)
(* result.  obj is the truthiness of the value returned; outcome says what  *)
(* happened on the wire.  The parameter fails says that the request fails   *)
(* in transport, authentication or with an HTTP error other than 404.       *)

\* f"{repo}" in a URL: None is formatted as the text None.
UrlPart(repo) == IF repo = None THEN <<"None">> ELSE repo

Call(op, repo, name, outcome) ==
    [op |-> op, repo |-> repo, name |-> name, outcome |-> outcome]

\* The requests of a list, each marked with the row it was sent for.
ForRow(reqs, row_num) == [i \in 1..Len(reqs) |-> [row |-> row_num] @@ reqs[i]]

\* The requests of a list, each marked with the stage that sent it.
InStage(reqs, stage) == [i \in 1..Len(reqs) |-> [stage |-> stage] @@ reqs[i]]

Failures(reqs) == Cardinality({i \in 1..Len(reqs) : reqs[i].outcome = "failure"})

\* get_user(username)
get_user(rem, username, fails) ==
    LET outcome == IF fails THEN "failure"
                   ELSE IF username \in rem.users THEN "found" ELSE "notFound"
    IN  [raises |-> FALSE, obj |-> outcome = "found",
         call |-> Call("getUser", <<>>, username, outcome)]

\* get_label(repo, label_name).  An empty label_name makes the URL that of the
\* label listing of the repository, whose answer is truthy when it lists a label.
get_label(rem, repo, label_name, fails) ==
    LET exists == IF label_name = <<>>
                  THEN \E l \in rem.labels : l[1] = UrlPart(repo)
                  ELSE <<UrlPart(repo), label_name>> \in rem.labels
        outcome == IF fails THEN "failure" ELSE IF exists THEN "found" ELSE "notFound"
    IN  [raises |-> FALSE, obj |-> outcome = "found",
         call |-> Call("getLabel", UrlPart(repo), label_name, outcome)]

\* create_label against a service that answers created and does not keep
\* the label.
create_label_NotKept(rem, repo, name, fails) ==
    LET outcome == IF fails THEN "failure"
                   ELSE IF <<UrlPart(repo), name>> \in rem.labels THEN "conflict"
                   ELSE "created"
    IN  [raises |-> FALSE, obj |-> outcome = "created",
         remote |-> rem,
         call |-> Call("createLabel", UrlPart(repo), name, outcome)]

\* create_label(repo, name): the service refuses a name the repository has.
create_label(rem, repo, name, fails) ==
    LET outcome == IF fails THEN "failure"
                   ELSE IF <<UrlPart(repo), name>> \in rem.labels THEN "conflict"
                   ELSE "created"
    IN  [raises |-> FALSE, obj |-> outcome = "created",
         remote |-> IF outcome = "created"
                    THEN [rem EXCEPT !.labels = @ \cup {<<UrlPart(repo), name>>}]
                    ELSE rem,
         call |-> Call("createLabel", UrlPart(repo), name, outcome)]

\* create_issue(repo, title, body, labels, assignee, milestone): the value
\* returned is the issue as the service reports it, or None.
create_issue(rem, repo, title, body, labels, assignee, milestone, fails) ==
    LET created == [number |-> Len(rem.issues) + 1, repo |-> UrlPart(repo),
                    title |-> title, body |-> body, labels |-> labels,
                    assignee |-> assignee, milestone |-> milestone]
    IN  [raises |-> FALSE, obj |-> ~fails, created |-> created,
         remote |-> IF fails THEN rem ELSE [rem EXCEPT !.issues = Append(@, created)],
         call |-> [op |-> "createIssue", repo |-> UrlPart(repo), name |-> title,
                   outcome |-> IF fails THEN "failure" ELSE "created",
                   labels |-> labels, assignee |-> assignee]]

-----------------------------------------------------------------------------
(* validators.py.  A pass returns [raised, errors, calls]: raised says that *)
(* an AttributeError left the pass (strip() of a None cell), errors is the  *)
(* list it returns otherwise, calls the requests it sent, in order.  fails  *)
(* is the set of call sites whose request fails.                            *)

\* An assignee finding of severity info.
AssigneeFinding_Info(row_num, assignee, text) ==
    [row |-> row_num, field |-> "Assignee",
     message |-> [text |-> text, value |-> assignee], severity |-> "info"]

AssigneeFinding(row_num, assignee, text) ==
    [row |-> row_num, field |-> "Assignee",
     message |-> [text |-> text, value |-> assignee], severity |-> "warn"]

\* validate_assignees(rows), its loop run over the first n rows.
RECURSIVE validate_assignees(_, _, _, _)
validate_assignees(rows, rem, fails, n) ==
    IF n = 0 THEN [raised |-> FALSE, errors |-> <<>>, calls |-> <<>>]
    ELSE LET before == validate_assignees(rows, rem, fails, n - 1)
             row_num == n + 1
             cell == Get(rows[n], "Assignee", <<>>)
             assignee == Strip(cell)
             user == get_user(rem, assignee, n \in fails)
         IN  IF before.raised THEN before
             ELSE IF cell = None THEN [before EXCEPT !.raised = TRUE]
             ELSE IF assignee = <<>> THEN before
             ELSE [raised |-> FALSE,
                   errors |-> before.errors \o
                       (IF user.raises
                        THEN <<AssigneeFinding(row_num, assignee, "Failed to validate user")>>
                        ELSE IF ~user.obj
                        THEN <<AssigneeFinding(row_num, assignee, "User not found in GitHub")>>
                        ELSE <<>>),
                   calls |-> before.calls \o ForRow(<<user.call>>, row_num)]

\* A label finding that blocks, whatever severity it is given.
LabelFinding_Error(row_num, label, repo, text, severity) ==
    [row |-> row_num, field |-> "Labels",
     message |-> [text |-> text, label |-> label, repo |-> repo],
     severity |-> "error"]

LabelFinding(row_num, label, repo, text, severity) ==
    [row |-> row_num, field |-> "Labels",
     message |-> [text |-> text, label |-> label, repo |-> repo],
     severity |-> severity]

\* The inner loop of validate_labels, creating the labels it does not find.
RECURSIVE CheckLabels_Creating(_, _, _, _, _, _)
CheckLabels_Creating(labels, repo, rem, fails, n, k) ==
    IF k = 0 THEN [errors |-> <<>>, calls |-> <<>>]
    ELSE LET before == CheckLabels_Creating(labels, repo, rem, fails, n, k - 1)
             label == labels[k]
             label_obj == get_label(rem, repo, label, <<n, k>> \in fails)
             made == create_label(rem, repo, label, FALSE)
         IN  [errors |-> before.errors \o
                  (IF ~label_obj.obj
                   THEN <<[row |-> n + 1, field |-> "Labels",
                           message |-> [text |-> "Label not found, will create",
                                        label |-> label, repo |-> repo],
                           severity |-> "info"]>>
                   ELSE <<>>),
              calls |-> before.calls \o
                  ForRow(IF label_obj.obj THEN <<label_obj.call>>
                         ELSE <<label_obj.call, made.call>>, n + 1)]

\* The inner loop of validate_labels over the first k labels of row n.
RECURSIVE CheckLabels(_, _, _, _, _, _)
CheckLabels(labels, repo, rem, fails, n, k) ==
    IF k = 0 THEN [errors |-> <<>>, calls |-> <<>>]
    ELSE LET before == CheckLabels(labels, repo, rem, fails, n, k - 1)
             label == labels[k]
             label_obj == get_label(rem, repo, label, <<n, k>> \in fails)
         IN  [errors |-> before.errors \o
                  (IF label_obj.raises
                   THEN <<LabelFinding(n + 1, label, repo,
                                       "Failed to validate label", "warn")>>
                   ELSE IF ~label_obj.obj
                   THEN <<LabelFinding(n + 1, label, repo,
                                       "Label not found, will create", "info")>>
                   ELSE <<>>),
              calls |-> before.calls \o ForRow(<<label_obj.call>>, n + 1)]

\* validate_labels(rows, repo), its loop run over the first n rows.
RECURSIVE validate_labels(_, _, _, _, _)
validate_labels(rows, repo, rem, fails, n) ==
    IF n = 0 THEN [raised |-> FALSE, errors |-> <<>>, calls |-> <<>>]
    ELSE LET before == validate_labels(rows, repo, rem, fails, n - 1)
             cell == Get(rows[n], "Labels", <<>>)
             labels_str == Strip(cell)
             labels == MapStrip(Split(labels_str))
             checks == CheckLabels(labels, repo, rem, fails, n, Len(labels))
         IN  IF before.raised THEN before
             ELSE IF cell = None THEN [before EXCEPT !.raised = TRUE]
             ELSE IF labels_str = <<>> THEN before
             ELSE [raised |-> FALSE,
                   errors |-> before.errors \o checks.errors,
                   calls |-> before.calls \o checks.calls]

\* The call sites of validate_assignees and of validate_labels.
AssigneeSites(rows) == 1..Len(rows)

LabelSites(rows) ==
    UNION {{<<n, k>> : k \in 1..Len(Split(Strip(Get(rows[n], "Labels", <<>>))))} :
              n \in {m \in 1..Len(rows) : Truthy(Strip(Get(rows[m], "Labels", <<>>)))}}

-----------------------------------------------------------------------------
(* issue_mapper.py                                                         *)

ProjectLabel == <<"ask-myuni">>

\* _parse_labels with the parts kept as they stand, not trimmed.
_parse_labels_NoStrip(labels_str) ==
    IF ~Truthy(labels_str) THEN <<>> ELSE DropEmpty(Split(labels_str))

\* _parse_labels(labels_str)
_parse_labels(labels_str) ==
    IF ~Truthy(labels_str) THEN <<>> ELSE DropEmpty(MapStrip(Split(labels_str)))

\* map_row_to_issue raises AttributeError on strip() of a None cell.
MapRaises(r) ==
    \E key \in {"Title", "Description", "Assignee", "Milestone"} :
        Get(r, key, <<>>) = None

\* map_row_to_issue(row, repo), for a row on which it does not raise: the
\* issue dicts it can return, one for each order list(set(labels)) can have.
map_row_to_issue(r, repo) ==
    LET labels == Append(_parse_labels(Get(r, "Labels", <<>>)), ProjectLabel)
    IN  {[title |-> Strip(Get(r, "Title", <<>>)),
          body |-> Strip(Get(r, "Description", <<>>)),
          labels |-> label_list,
          assignee |-> Or(Strip(Get(r, "Assignee", <<>>)), None),
          milestone |-> Or(Strip(Get(r, "Milestone", <<>>)), None),
          type |-> Get(r, "Type", <<"Task">>),
          repository |-> repo] : label_list \in ListsOf(Range(labels))}

\* The loop of enrich_with_github_metadata with the lookups only: a label
\* that is not found is not created.
RECURSIVE EnrichLabels_NoCreate(_, _, _, _, _)
EnrichLabels_NoCreate(iss, rem, get_fails, create_fails, k) ==
    IF k = 0 THEN [enriched_labels |-> <<>>, remote |-> rem, calls |-> <<>>]
    ELSE LET before == EnrichLabels_NoCreate(iss, rem, get_fails, create_fails, k - 1)
             label == iss.labels[k]
             label_obj == get_label(before.remote, iss.repository, label,
                                    k \in get_fails)
         IN  [enriched_labels |-> Append(before.enriched_labels, label),
              remote |-> before.remote,
              calls |-> Append(before.calls, label_obj.call)]

\* The loop of enrich_with_github_metadata, left at the first label whose
\* creation does not succeed, that label and the ones after it not kept.
RECURSIVE EnrichLabels_Stopping(_, _, _, _, _)
EnrichLabels_Stopping(iss, rem, get_fails, create_fails, k) ==
    IF k = 0 THEN [enriched_labels |-> <<>>, remote |-> rem, calls |-> <<>>,
                   stopped |-> FALSE]
    ELSE LET before == EnrichLabels_Stopping(iss, rem, get_fails, create_fails, k - 1)
             repo == iss.repository
             label == iss.labels[k]
             label_obj == get_label(before.remote, repo, label, k \in get_fails)
             made == create_label(before.remote, repo, label, k \in create_fails)
         IN  IF before.stopped THEN before
             ELSE IF label_obj.obj
             THEN [before EXCEPT !.enriched_labels = Append(@, label),
                                 !.calls = Append(@, label_obj.call)]
             ELSE IF made.obj
             THEN [before EXCEPT !.enriched_labels = Append(@, label),
                                 !.remote = made.remote,
                                 !.calls = @ \o <<label_obj.call, made.call>>]
             ELSE [before EXCEPT !.calls = @ \o <<label_obj.call, made.call>>,
                                 !.stopped = TRUE]

\* The loop of enrich_with_github_metadata over the first k labels of the
\* issue: [enriched_labels, remote, calls].
RECURSIVE EnrichLabels(_, _, _, _, _)
EnrichLabels(iss, rem, get_fails, create_fails, k) ==
    IF k = 0 THEN [enriched_labels |-> <<>>, remote |-> rem, calls |-> <<>>]
    ELSE LET before == EnrichLabels(iss, rem, get_fails, create_fails, k - 1)
             repo == iss.repository
             label == iss.labels[k]
             label_obj == get_label(before.remote, repo, label, k \in get_fails)
             made == create_label(before.remote, repo, label, k \in create_fails)
         IN  IF label_obj.obj
             THEN [enriched_labels |-> Append(before.enriched_labels, label),
                   remote |-> before.remote,
                   calls |-> Append(before.calls, label_obj.call)]
             ELSE [enriched_labels |-> Append(before.enriched_labels, label),
                   remote |-> made.remote,
                   calls |-> before.calls \o <<label_obj.call, made.call>>]

\* The loop of enrich_with_github_metadata, keeping a label only when it was
\* found or created.
RECURSIVE EnrichLabels_Dropping(_, _, _, _, _)
EnrichLabels_Dropping(iss, rem, get_fails, create_fails, k) ==
    IF k = 0 THEN [enriched_labels |-> <<>>, remote |-> rem, calls |-> <<>>]
    ELSE LET before == EnrichLabels_Dropping(iss, rem, get_fails, create_fails, k - 1)
             repo == iss.repository
             label == iss.labels[k]
             label_obj == get_label(before.remote, repo, label, k \in get_fails)
             made == create_label(before.remote, repo, label, k \in create_fails)
         IN  IF label_obj.obj
             THEN [enriched_labels |-> Append(before.enriched_labels, label),
                   remote |-> before.remote,
                   calls |-> Append(before.calls, label_obj.call)]
             ELSE [enriched_labels |-> IF made.obj
                                       THEN Append(before.enriched_labels, label)
                                       ELSE before.enriched_labels,
                   remote |-> made.remote,
                   calls |-> before.calls \o <<label_obj.call, made.call>>]

enrich_with_github_metadata_Dropping(iss, rem, get_fails, create_fails) ==
    LET done == EnrichLabels_Dropping(iss, rem, get_fails, create_fails,
                                      Len(iss.labels))
    IN  [issue |-> [iss EXCEPT !.labels = done.enriched_labels],
         remote |-> done.remote,
         calls |-> done.calls]

\* enrich_with_github_metadata returning the issue with its assignee emptied.
enrich_with_github_metadata_Unassigning(iss, rem, get_fails, create_fails) ==
    LET done == EnrichLabels(iss, rem, get_fails, create_fails, Len(iss.labels))
    IN  [issue |-> [iss EXCEPT !.labels = done.enriched_labels, !.assignee = <<>>],
         remote |-> done.remote,
         calls |-> done.calls]

\* enrich_with_github_metadata(issue): [issue, remote, calls].
enrich_with_github_metadata(iss, rem, get_fails, create_fails) ==
    LET done == EnrichLabels(iss, rem, get_fails, create_fails, Len(iss.labels))
    IN  [issue |-> [iss EXCEPT !.labels = done.enriched_labels],
         remote |-> done.remote,
         calls |-> done.calls]

-----------------------------------------------------------------------------
(* cli.py: ImportPipeline                                                  *)

\* validate(csv_path) keeping the rows only in a result that is valid.
validate_DroppingData(f) ==
    LET read == read_csv(f)
        all_errors == read.errors \o validate_format(read.rows, Len(read.rows))
        kept == IF Len(all_errors) = 0 THEN read.rows ELSE <<>>
    IN  IF FormatRaises(read.rows) THEN [raises |-> TRUE, result |-> NoResult]
        ELSE [raises |-> FALSE,
              result |-> [valid |-> Len(all_errors) = 0,
                          rows_count |-> Len(kept),
                          errors |-> all_errors,
                          warnings |-> <<>>,
                          data |-> kept]]

\* validate(csv_path): [raises, result]; the AttributeError of
\* validate_format is not caught.
validate(f) ==
    LET read == read_csv(f)
        all_errors == read.errors \o validate_format(read.rows, Len(read.rows))
    IN  IF FormatRaises(read.rows) THEN [raises |-> TRUE, result |-> NoResult]
        ELSE [raises |-> FALSE,
              result |-> [valid |-> Len(all_errors) = 0,
                          rows_count |-> Len(read.rows),
                          errors |-> all_errors,
                          warnings |-> <<>>,
                          data |-> read.rows]]

\* enrich: "if not validation_result['valid']: return validation_result"
EnrichRefuses_Never(validation_result) == FALSE

EnrichRefuses(validation_result) == ~validation_result.valid

\* import_to_github: "if not enrichment_result['valid']: return enrichment_result"
ImportRefuses(enrichment_result) == ~enrichment_result.valid

\* The repository resolved with the configured default taking precedence.
TargetRepo_DefaultFirst(r, cfg) == Or(cfg.default, Get(r, "Repository", None))

\* row.get('Repository') or self.config.get('repository_rules', {}).get('default')
TargetRepo(r, cfg) == Or(Get(r, "Repository", None), cfg.default)

\* An exception nothing catches ends the run with a traceback.
Crash ==
    /\ pc' = "crashed"
    /\ exit_code' = 1

\* enrich(validation_result), up to the end of the assignee pass.
EnrichAssignees ==
    /\ pc = "enrich"
    /\ IF EnrichRefuses(validate_result)
       THEN /\ enrich_result' = validate_result
            /\ pc' = "enriched"
            /\ UNCHANGED <<validate_result, calls, faults, exit_code>>
       ELSE \E fails \in SUBSET AssigneeSites(validate_result.data) :
            \E pass \in {validate_assignees(validate_result.data, remote, fails,
                                            Len(validate_result.data))} :
                  /\ Cardinality(fails) <= MaxFaults - faults
                  /\ calls' = calls \o InStage(pass.calls, "enrich")
                  /\ faults' = faults + Failures(pass.calls)
                  /\ IF pass.raised
                     THEN Crash /\ UNCHANGED validate_result
                     ELSE /\ validate_result' =
                                [validate_result EXCEPT !.warnings = @ \o pass.errors]
                          /\ pc' = "enrich_primary"
                          /\ UNCHANGED exit_code
                  /\ UNCHANGED enrich_result
    /\ UNCHANGED <<args, file, config, remote, import_result, response, row_i,
                   created_issues, errors, outcomes, issue, row, once, stdout, remote0>>

\* enrich: one turn of the loop over the primary and the secondary
\* repository, and the return after the second.
EnrichLabelsPass(key) ==
    /\ pc = "enrich_" \o key
    /\ \E fails \in SUBSET LabelSites(validate_result.data) :
       \E pass \in {IF Truthy(config[key])
                    THEN validate_labels(validate_result.data, config[key], remote,
                                         fails, Len(validate_result.data))
                    ELSE [raised |-> FALSE, errors |-> <<>>, calls |-> <<>>]} :
         LET after == [validate_result EXCEPT !.warnings = @ \o pass.errors]
         IN  /\ Cardinality(fails) <= MaxFaults - faults
             /\ Truthy(config[key]) \/ fails = {}
             /\ calls' = calls \o InStage(pass.calls, "enrich")
             /\ faults' = faults + Failures(pass.calls)
             /\ IF pass.raised
                THEN Crash /\ UNCHANGED <<validate_result, enrich_result>>
                ELSE /\ validate_result' = after
                     /\ IF key = "primary"
                        THEN pc' = "enrich_secondary" /\ UNCHANGED enrich_result
                        ELSE pc' = "enriched" /\ enrich_result' = after
                     /\ UNCHANGED exit_code
    /\ UNCHANGED <<args, file, config, remote, import_result, response, row_i,
                   created_issues, errors, outcomes, issue, row, once, stdout, remote0>>

\* import_to_github(enrichment_result), up to the loop over the rows.
ImportBegin ==
    /\ pc = "import"
    /\ IF ImportRefuses(enrich_result)
       THEN /\ import_result' = enrich_result
            /\ pc' = "imported"
            /\ UNCHANGED <<row_i, created_issues, errors>>
       ELSE /\ row_i' = 0
            /\ created_issues' = <<>>
            /\ errors' = <<>>
            /\ pc' = "import_rows"
            /\ UNCHANGED import_result
    /\ UNCHANGED <<args, file, config, remote, calls, validate_result,
                   enrich_result, response, outcomes, issue, row, once, stdout, faults,
                   remote0, exit_code>>

Failed(r, message) == [row_title |-> Get(r, "Title", None), message |-> message]

\* "for row in rows": the loop has a row left.
MoreRows_StopOnError(rows, i, errs) == i < Len(rows) /\ errs = <<>>

MoreRows(rows, i, errs) == i < Len(rows)

\* errors.append(entry)
errors_append_Front(errs, entry) == <<entry>> \o errs

errors_append(errs, entry) == Append(errs, entry)

\* import_to_github: one turn of the loop over the rows.
ImportRow ==
    /\ pc = "import_rows"
    /\ MoreRows(enrich_result.data, row_i, errors)
    /\ row' = enrich_result.data[row_i + 1]
    /\ LET repo == TargetRepo(row', config)
       IN  IF MapRaises(row')
           THEN /\ errors' = errors_append(errors, Failed(row', "AttributeError"))
                /\ outcomes' = Append(outcomes, [row |-> row_i + 1, kind |-> "Failed"])
                /\ UNCHANGED <<remote, calls, created_issues, issue, faults>>
           ELSE \E mapped \in map_row_to_issue(row', repo) :
                \E get_fails, create_fails \in SUBSET (1..Len(mapped.labels)) :
                \E issue_fails \in BOOLEAN :
                  /\ Cardinality(get_fails) + Cardinality(create_fails)
                        + (IF issue_fails THEN 1 ELSE 0) <= MaxFaults - faults
                  /\ \E enriched \in {enrich_with_github_metadata(
                                           mapped, remote, get_fails, create_fails)} :
                     \E created \in {create_issue(enriched.remote, repo,
                                         enriched.issue.title, enriched.issue.body,
                                         enriched.issue.labels, enriched.issue.assignee,
                                         enriched.issue.milestone, issue_fails)} :
                     \E reqs \in {Append(enriched.calls, created.call)} :
                       /\ faults' = faults + Failures(reqs)
                       /\ issue' = enriched.issue
                       /\ remote' = created.remote
                       /\ calls' = calls \o InStage(ForRow(reqs, row_i + 2), "commit")
                       /\ IF created.obj
                          THEN /\ created_issues' =
                                     Append(created_issues, created.created)
                               /\ outcomes' = Append(outcomes,
                                      [row |-> row_i + 1, kind |-> "Created"])
                               /\ UNCHANGED errors
                          ELSE /\ errors' = errors_append(errors,
                                      Failed(row', "Failed to create issue"))
                               /\ outcomes' = Append(outcomes,
                                      [row |-> row_i + 1, kind |-> "Failed"])
                               /\ UNCHANGED created_issues
    /\ row_i' = row_i + 1
    /\ UNCHANGED <<args, file, config, pc, validate_result, enrich_result,
                   import_result, response, once, stdout, remote0, exit_code>>

\* import_to_github returning a report that is valid whatever the errors.
ImportReturn_AlwaysValid ==
    /\ pc = "import_rows"
    /\ ~MoreRows(enrich_result.data, row_i, errors)
    /\ import_result' = [valid |-> TRUE,
                         created_issues |-> created_issues,
                         errors |-> errors,
                         total_created |-> Len(created_issues)]
    /\ pc' = "imported"
    /\ UNCHANGED <<args, file, config, remote, calls, validate_result,
                   enrich_result, response, row_i, created_issues, errors, outcomes,
                   issue, row, once, stdout, faults, remote0, exit_code>>

\* import_to_github: the return after the loop.
ImportReturn ==
    /\ pc = "import_rows"
    /\ ~MoreRows(enrich_result.data, row_i, errors)
    /\ import_result' = [valid |-> Len(errors) = 0,
                         created_issues |-> created_issues,
                         errors |-> errors,
                         total_created |-> Len(created_issues)]
    /\ pc' = "imported"
    /\ UNCHANGED <<args, file, config, remote, calls, validate_result,
                   enrich_result, response, row_i, created_issues, errors, outcomes,
                   issue, row, once, stdout, faults, remote0, exit_code>>

\* preview(validation_result): what it prints.
RECURSIVE preview(_, _, _)
preview(rows, cfg, n) ==
    IF n = 0 THEN <<[kind |-> "preview_total", total |-> Len(rows)]>>
    ELSE LET r == rows[n]
         IN  Append(preview(rows, cfg, n - 1),
                    [kind |-> "preview_item",
                     type |-> Get(r, "Type", None),
                     title |-> Get(r, "Title", None),
                     repo |-> TargetRepo(r, cfg),
                     assignee |-> Or(Get(r, "Assignee", None), <<"Unassigned">>),
                     labels |-> Or(Get(r, "Labels", None), <<"None">>)])

-----------------------------------------------------------------------------
(* cli.py: main                                                            *)

\* print_result(result)
Printed(result) == [kind |-> "result", result |-> result]

NoResponse == "<none>"

\* What input() can return at the prompt; EndOfInput is a closed stdin.
EndOfInput == "<EOF>"

Responses == {"yes", "YES", "no", EndOfInput}

\* str.lower()
Lower(r) == IF r = "YES" THEN "yes" ELSE r

\* "if response.lower() != 'yes'": the user declines.
Declines_Inverted(r) == Lower(r) = "yes"

Declines(r) == Lower(r) # "yes"

\* main, command validate.
MainValidate ==
    /\ pc = "main"
    /\ args.command = "validate"
    /\ \E v \in {validate(file)} :
           IF v.raises
           THEN Crash /\ UNCHANGED <<validate_result, stdout>>
           ELSE /\ validate_result' = v.result
                /\ stdout' = Append(stdout, Printed(v.result))
                /\ pc' = "exit"
                /\ exit_code' = 0
    /\ UNCHANGED <<args, file, config, remote, calls, enrich_result, import_result,
                   response, row_i, created_issues, errors, outcomes, issue, row, once,
                   faults, remote0>>

\* main, command preview.
MainPreview ==
    /\ pc = "main"
    /\ args.command = "preview"
    /\ \E v \in {validate(file)} :
           IF v.raises
           THEN Crash /\ UNCHANGED <<validate_result, stdout>>
           ELSE /\ validate_result' = v.result
                /\ stdout' = IF v.result.valid
                             THEN stdout \o preview(v.result.data, config,
                                                    Len(v.result.data))
                             ELSE stdout
                /\ pc' = "exit"
                /\ exit_code' = 0
    /\ UNCHANGED <<args, file, config, remote, calls, enrich_result, import_result,
                   response, row_i, created_issues, errors, outcomes, issue, row, once,
                   faults, remote0>>

\* main, command import: the validate stage and the exit on an invalid result.
MainImportValidate ==
    /\ pc = "main"
    /\ args.command = "import"
    /\ \E v \in {validate(file)} :
           IF v.raises
           THEN Crash /\ UNCHANGED <<validate_result, stdout>>
           ELSE /\ validate_result' = v.result
                /\ IF ~v.result.valid
                   THEN /\ stdout' = Append(stdout, Printed(v.result))
                        /\ pc' = "exit"
                        /\ exit_code' = 1
                   ELSE /\ pc' = "enrich"
                        /\ UNCHANGED <<stdout, exit_code>>
    /\ UNCHANGED <<args, file, config, remote, calls, enrich_result, import_result,
                   response, row_i, created_issues, errors, outcomes, issue, row, once,
                   faults, remote0>>

\* main, command import: the print of the enrich result and the prompt.
MainConfirm ==
    /\ pc = "enriched"
    /\ stdout' = Append(stdout, Printed(enrich_result))
    /\ IF args.confirm
       THEN /\ pc' = "import"
            /\ UNCHANGED <<response, exit_code>>
       ELSE \E r \in Responses :
              /\ response' = r
              /\ IF r = EndOfInput THEN Crash
                 ELSE IF Declines(r) THEN pc' = "exit" /\ exit_code' = 0
                 ELSE pc' = "import" /\ UNCHANGED exit_code
    /\ UNCHANGED <<args, file, config, remote, calls, validate_result,
                   enrich_result, import_result, row_i, created_issues, errors,
                   outcomes, issue, row, once, faults, remote0>>

\* main, command import, leaving with status 1 when a row failed.
MainFinish_FailOnErrors ==
    /\ pc = "imported"
    /\ stdout' = Append(stdout, Printed(import_result))
    /\ pc' = "exit"
    /\ exit_code' = IF import_result.valid THEN 0 ELSE 1
    /\ UNCHANGED <<args, file, config, remote, calls, validate_result,
                   enrich_result, import_result, response, row_i, created_issues,
                   errors, outcomes, issue, row, once, faults, remote0>>

\* main, command import: the print of the import result.
MainFinish ==
    /\ pc = "imported"
    /\ stdout' = Append(stdout, Printed(import_result))
    /\ pc' = "exit"
    /\ exit_code' = 0
    /\ UNCHANGED <<args, file, config, remote, calls, validate_result,
                   enrich_result, import_result, response, row_i, created_issues,
                   errors, outcomes, issue, row, once, faults, remote0>>

-----------------------------------------------------------------------------
(* The inputs of a run.                                                    *)

HeaderPlain == <<"Title", "Type", "Labels", "Assignee", "Description", "Milestone">>

HeaderRepo ==
    <<"Title", "Repository", "Type", "Labels", "Assignee", "Description", "Milestone">>

HeaderNoMilestone == <<"Title", "Type", "Labels", "Assignee", "Description">>

HeaderTitleLast == <<"Type", "Labels", "Assignee", "Description", "Milestone", "Title">>

Columns == REQUIRED_COLUMNS \cup {"Repository"}

\* The line of a file with header h that has the first n cells of the values v.
Line(h, v, n) == [i \in 1..n |-> v[h[i]]]

BaseValues ==
    [Title |-> <<"t">>, Repository |-> <<>>, Type |-> <<"Task">>, Labels |-> <<>>,
     Assignee |-> <<>>, Description |-> <<"d">>, Milestone |-> <<>>]

\* The rows of the pipeline specifications: one well-formed row and its variants.
PipelineValues ==
    {BaseValues,
     [BaseValues EXCEPT !.Type = <<"Bug">>],
     [BaseValues EXCEPT !.Title = <<" ">>],
     [BaseValues EXCEPT !.Labels = <<"bug">>],
     [BaseValues EXCEPT !.Labels = <<"bug", ";", " ">>],
     [BaseValues EXCEPT !.Assignee = <<" ", "ghost">>],
     [BaseValues EXCEPT !.Title = <<"u">>, !.Type = <<"Epic">>,
                        !.Repository = <<"r2">>, !.Labels = <<"bug">>,
                        !.Assignee = <<"ghost">>]}

PipelineLines ==
    {Line(HeaderRepo, v, 7) : v \in PipelineValues}
        \cup {Line(HeaderRepo, BaseValues, n) : n \in {4, 6}}

PipelineFiles ==
    {[fieldnames |-> HeaderRepo, lines |-> ls, fail |-> 0] :
        ls \in SeqsUpTo(PipelineLines, MaxRows)}
        \cup {[fieldnames |-> HeaderNoMilestone,
               lines |-> <<Line(HeaderNoMilestone, BaseValues, 5)>>, fail |-> 0]}

\* The rows of the command-line specification.
MainValues ==
    {BaseValues,
     [BaseValues EXCEPT !.Type = <<"Bug">>],
     [BaseValues EXCEPT !.Title = <<"u">>, !.Type = <<"Epic">>,
                        !.Repository = <<"r2">>, !.Labels = <<"bug">>,
                        !.Assignee = <<"ghost">>]}

MainLines ==
    {Line(HeaderRepo, v, 7) : v \in MainValues}
        \cup {Line(HeaderRepo, BaseValues, 6)}

MainFiles ==
    {[fieldnames |-> HeaderRepo, lines |-> ls, fail |-> 0] :
        ls \in SeqsUpTo(MainLines, MaxRows)}
        \cup {[fieldnames |-> HeaderNoMilestone,
               lines |-> <<Line(HeaderNoMilestone, BaseValues, 5)>>, fail |-> 0]}

NoRules == [primary |-> None, secondary |-> None, default |-> None]

Configs ==
    {NoRules,
     [primary |-> <<"r1">>, secondary |-> <<"r2">>, default |-> <<"r1">>],
     [primary |-> <<"r1">>, secondary |-> <<"r1">>, default |-> <<"r1">>]}

Remotes ==
    {[labels |-> {}, users |-> {}, issues |-> <<>>],
     [labels |-> {<<<<"r1">>, <<"bug">>>>, <<<<"r1">>, ProjectLabel>>,
                  <<<<"r2">>, ProjectLabel>>},
      users |-> {<<"ghost">>}, issues |-> <<>>]}

MainArgs ==
    {[command |-> "validate", confirm |-> FALSE],
     [command |-> "preview", confirm |-> FALSE],
     [command |-> "import", confirm |-> FALSE],
     [command |-> "import", confirm |-> TRUE]}

\* The state before main (or a caller of the pipeline) runs.
InitWith(Args, Files, Cfgs, Rems) ==
    /\ args \in Args
    /\ file \in Files
    /\ config \in Cfgs
    /\ remote \in Rems
    /\ remote0 = remote
    /\ calls = <<>>
    /\ pc = "main"
    /\ validate_result = NoResult
    /\ enrich_result = NoResult
    /\ import_result = NoResult
    /\ response = NoResponse
    /\ row_i = 0
    /\ created_issues = <<>>
    /\ errors = <<>>
    /\ outcomes = <<>>
    /\ issue = NoResult
    /\ row = NoResult
    /\ once = <<>>
    /\ stdout = <<>>
    /\ faults = 0
    /\ exit_code = NoExit

-----------------------------------------------------------------------------
(* The command line: main run on a file.                                   *)

Init == InitWith(MainArgs, MainFiles, Configs, Remotes)

Next ==
    \/ MainValidate
    \/ MainPreview
    \/ MainImportValidate
    \/ EnrichAssignees
    \/ EnrichLabelsPass("primary")
    \/ EnrichLabelsPass("secondary")
    \/ MainConfirm
    \/ ImportBegin
    \/ ImportRow
    \/ ImportReturn
    \/ MainFinish

Spec == Init /\ [][Next]_vars

-----------------------------------------------------------------------------
(* A caller of ImportPipeline that chains the three stages, handing each   *)
(* stage the result of the one before, whatever its valid flag.            *)

ApiArgs == {[command |-> "api", confirm |-> TRUE]}

\* result = pipeline.validate(csv_path); the caller goes on to enrich(result).
ApiValidate ==
    /\ pc = "main"
    /\ \E v \in {validate(file)} :
           IF v.raises
           THEN Crash /\ UNCHANGED validate_result
           ELSE /\ validate_result' = v.result
                /\ pc' = "enrich"
                /\ UNCHANGED exit_code
    /\ UNCHANGED <<args, file, config, remote, calls, enrich_result, import_result,
                   response, row_i, created_issues, errors, outcomes, issue, row,
                   once, stdout, faults, remote0>>

\* The caller goes on to import_to_github(enrich_result).
ApiImport ==
    /\ pc = "enriched"
    /\ pc' = "import"
    /\ UNCHANGED <<args, file, config, remote, calls, validate_result,
                   enrich_result, import_result, response, row_i, created_issues,
                   errors, outcomes, issue, row, once, stdout, faults, remote0,
                   exit_code>>

InitApi == InitWith(ApiArgs, PipelineFiles, Configs, Remotes)

NextApi ==
    \/ ApiValidate
    \/ EnrichAssignees
    \/ EnrichLabelsPass("primary")
    \/ EnrichLabelsPass("secondary")
    \/ ApiImport
    \/ ImportBegin
    \/ ImportRow
    \/ ImportReturn

SpecApi == InitApi /\ [][NextApi]_vars

-----------------------------------------------------------------------------
(* The same caller on files that validate, for the Commit stage.           *)

CommitValues ==
    {[BaseValues EXCEPT !.Labels = <<"bug">>],
     [BaseValues EXCEPT !.Assignee = <<" ", "ghost">>],
     [BaseValues EXCEPT !.Title = <<"u">>, !.Type = <<"Epic">>,
                        !.Repository = <<"r2">>, !.Labels = <<"bug">>,
                        !.Assignee = <<"ghost">>]}

CommitLines ==
    {Line(HeaderRepo, v, 7) : v \in CommitValues}
        \cup {Line(HeaderRepo, BaseValues, 6)}

CommitFiles ==
    {[fieldnames |-> HeaderRepo, lines |-> ls, fail |-> 0] :
        ls \in SeqsUpTo(CommitLines, MaxRows)}

InitCommit == InitWith(ApiArgs, CommitFiles, Configs, Remotes)

SpecCommit == InitCommit /\ [][NextApi]_vars

-----------------------------------------------------------------------------
(* The validate command on files of every shape.                           *)

BlankValues == [c \in Columns |-> <<>>]

ValidateValues ==
    {BaseValues,
     BlankValues,
     [BaseValues EXCEPT !.Type = <<"Epic">>],
     [BaseValues EXCEPT !.Type = <<"Bug">>],
     [BaseValues EXCEPT !.Type = <<" ", "Task">>],
     [BaseValues EXCEPT !.Title = <<>>],
     [BaseValues EXCEPT !.Title = <<" ">>],
     [BaseValues EXCEPT !.Title = <<" ", "t">>, !.Type = <<>>]}

ValidateHeaders == {<<>>, HeaderPlain, HeaderNoMilestone, HeaderTitleLast}

ValidateLines(h) ==
    {Line(h, v, Len(h)) : v \in ValidateValues}
        \cup {Line(h, BaseValues, n) : n \in {0, Len(h) - 1} \cap (0..Len(h))}

ValidateFiles ==
    UNION {{[fieldnames |-> h, lines |-> ls, fail |-> k] :
               ls \in SeqsUpTo(ValidateLines(h), MaxRows), k \in 0..(MaxRows + 1)} :
           h \in ValidateHeaders}

InitValidate ==
    /\ InitWith({[command |-> "validate", confirm |-> FALSE]}, ValidateFiles,
                {NoRules}, Remotes)
    /\ file.fail <= Len(file.lines) + 1

NextValidate == MainValidate

SpecValidate == InitValidate /\ [][NextValidate]_vars

-----------------------------------------------------------------------------
(* The mapper on rows with every Labels cell.                              *)

LabelTokens == {";", " ", "bug", "ui", "ask-myuni"}

MapRows ==
    {[BaseValues EXCEPT !.Labels = l] : l \in SeqsUpTo(LabelTokens, MaxLabelsLen)}
        \cup {[BaseValues EXCEPT !.Labels = None],
              [BaseValues EXCEPT !.Milestone = None],
              [BaseValues EXCEPT !.Repository = <<"r2">>, !.Assignee = <<"ghost", " ">>]}

\* issue = self.mapper.map_row_to_issue(row, repo)
MapRow ==
    /\ pc = "map"
    /\ IF MapRaises(row)
       THEN pc' = "map_raised" /\ UNCHANGED issue
       ELSE /\ issue' \in map_row_to_issue(row, TargetRepo(row, config))
            /\ pc' = "mapped"
    /\ UNCHANGED <<args, file, config, remote, calls, validate_result,
                   enrich_result, import_result, response, row_i, created_issues,
                   errors, outcomes, row, once, stdout, faults, remote0, exit_code>>

InitMap ==
    /\ args = [command |-> "api", confirm |-> TRUE]
    /\ file = [fieldnames |-> HeaderRepo, lines |-> <<>>, fail |-> 0]
    /\ config \in Configs
    /\ remote \in {r \in Remotes : r.labels = {}}
    /\ remote0 = remote
    /\ calls = <<>>
    /\ pc = "map"
    /\ validate_result = NoResult
    /\ enrich_result = NoResult
    /\ import_result = NoResult
    /\ response = NoResponse
    /\ row_i = 0
    /\ created_issues = <<>>
    /\ errors = <<>>
    /\ outcomes = <<>>
    /\ issue = NoResult
    /\ row \in MapRows
    /\ once = <<>>
    /\ stdout = <<>>
    /\ faults = 0
    /\ exit_code = NoExit

NextMap == MapRow

SpecMap == InitMap /\ [][NextMap]_vars

-----------------------------------------------------------------------------
(* The applier called twice on one issue.                                  *)

EnrichRows ==
    {BaseValues,
     [BaseValues EXCEPT !.Labels = <<"bug">>],
     [BaseValues EXCEPT !.Labels = <<"bug", ";", "ui">>],
     [BaseValues EXCEPT !.Labels = <<"ui">>, !.Repository = <<"r2">>]}

\* issue = self.mapper.enrich_with_github_metadata(issue)
EnrichCall ==
    /\ pc \in {"enrich_1", "enrich_2"}
    /\ \E get_fails, create_fails \in SUBSET (1..Len(issue.labels)) :
       \E enriched \in {enrich_with_github_metadata(
                            issue, remote, get_fails, create_fails)} :
             /\ Cardinality(get_fails) + Cardinality(create_fails)
                   <= MaxFaults - faults
             /\ faults' = faults + Failures(enriched.calls)
             /\ issue' = enriched.issue
             /\ remote' = enriched.remote
             /\ calls' = calls \o InStage(ForRow(enriched.calls, 2), pc)
    /\ once' = IF pc = "enrich_1" THEN issue'.labels ELSE once
    /\ pc' = IF pc = "enrich_1" THEN "enrich_2" ELSE "enrich_done"
    /\ UNCHANGED <<args, file, config, validate_result, enrich_result,
                   import_result, response, row_i, created_issues, errors, outcomes,
                   row, stdout, remote0, exit_code>>

InitEnrich ==
    /\ args = [command |-> "api", confirm |-> TRUE]
    /\ file = [fieldnames |-> HeaderRepo, lines |-> <<>>, fail |-> 0]
    /\ config \in Configs
    /\ remote \in Remotes
    /\ remote0 = remote
    /\ calls = <<>>
    /\ pc = "enrich_1"
    /\ validate_result = NoResult
    /\ enrich_result = NoResult
    /\ import_result = NoResult
    /\ response = NoResponse
    /\ row_i = 0
    /\ created_issues = <<>>
    /\ errors = <<>>
    /\ outcomes = <<>>
    /\ row \in EnrichRows
    /\ issue \in map_row_to_issue(row, TargetRepo(row, config))
    /\ once = <<>>
    /\ stdout = <<>>
    /\ faults = 0
    /\ exit_code = NoExit

NextEnrich == EnrichCall

SpecEnrich == InitEnrich /\ [][NextEnrich]_vars

-----------------------------------------------------------------------------
(* Properties.                                                             *)

Requests(ops, stages) ==
    {i \in 1..Len(calls) : calls[i].op \in ops /\ calls[i].stage \in stages}

Stages == {"enrich", "commit", "enrich_1", "enrich_2"}

\* The rows of a batch are well formed: Title not empty after trimming, Type
\* exactly Epic or Task.
WellFormed(r) ==
    /\ Get(r, "Title", <<>>) # None
    /\ Strip(Get(r, "Title", <<>>)) # <<>>
    /\ Get(r, "Type", None) \in {<<"Epic">>, <<"Task">>}

\* C1: an issue or a label is created (a createIssue or createLabel request
\* is sent, or the remote side differs from what it was) only in an import run
\* whose Validate and Enrich results are valid and that was confirmed, by
\* --confirm or by a yes typed at the prompt.
C1_CommitOnlyWhenValidAndConfirmed ==
    (\/ Requests({"createIssue", "createLabel"}, Stages) # {}
     \/ remote # remote0)
        => /\ args.command = "import"
           /\ ~validate(file).raises
           /\ validate(file).result.valid
           /\ enrich_result # NoResult
           /\ enrich_result.valid
           /\ args.confirm \/ response \in {"yes", "YES"}

\* C1 witness: an issue was created after a YES typed at the prompt.
C1_Witness ==
    /\ Requests({"createIssue"}, {"commit"}) # {}
    /\ ~args.confirm
    /\ response = "YES"

\* The stage a position of the control flow belongs to.
StageRank(p) ==
    IF p = "main" THEN 0
    ELSE IF p \in {"enrich", "enrich_primary", "enrich_secondary", "enriched"} THEN 1
    ELSE IF p \in {"import", "import_rows", "imported"} THEN 2
    ELSE 3

C2_Unchanged ==
    LET v == validate(file)
    IN  (~v.raises /\ ~v.result.valid)
            => /\ calls = <<>>
               /\ remote = remote0
               /\ validate_result \in {NoResult, v.result}
               /\ enrich_result \in {NoResult, v.result}
               /\ import_result \in {NoResult, v.result}
               /\ pc \in {"enriched", "import", "imported"}
                     => enrich_result = v.result
               /\ pc = "imported" => import_result = v.result

\* C2: when the Validate result is invalid, Enrich and Commit each return the
\* result they were given, unchanged, and no request of any kind is sent; and
\* the pipeline never moves back to an earlier stage.
C2_InvalidResultPassesThrough ==
    /\ []C2_Unchanged
    /\ [][StageRank(pc') >= StageRank(pc)]_vars

\* C2 witness: import_to_github has returned for a file whose rows, one of
\* them with a label, did not validate, with a primary repository configured.
C2_Witness ==
    /\ pc = "imported"
    /\ ~validate(file).raises
    /\ ~validate(file).result.valid
    /\ Truthy(config.primary)
    /\ \E i \in 1..Len(import_result.data) :
           Truthy(Get(import_result.data[i], "Labels", <<>>))

\* The header as far as it was read: none when open() or its read raised.
HeaderRead == IF file.fail = 1 THEN <<>> ELSE file.fieldnames

BatchWellFormed(result) ==
    /\ \A i \in 1..Len(result.data) : WellFormed(result.data[i])
    /\ REQUIRED_COLUMNS \subseteq Range(HeaderRead)

\* C3 as stated: Validate returns valid = true if and only if every row has a
\* Title that is not empty after trimming and a Type that is exactly Epic or
\* Task, and the header holds every required column.
C3_ValidIffWellFormed ==
    pc = "exit" => (validate_result.valid <=> BatchWellFormed(validate_result))

\* C3 amended: Validate returns valid = true if and only if the file was read
\* without an error, every row has a Title that is not empty after trimming
\* and a Type that is exactly Epic or Task, and the header holds every
\* required column.
C3_ValidIffReadAndWellFormed ==
    pc = "exit"
        => (validate_result.valid
                <=> (file.fail = 0 /\ BatchWellFormed(validate_result)))

\* C3 witness: a file of two rows validated.
C3_Witness ==
    /\ pc = "exit"
    /\ validate_result.valid
    /\ Len(validate_result.data) >= 2

IsPrefix(s, t) == Len(s) <= Len(t) /\ SubSeq(t, 1, Len(s)) = s

C4_OneOutcomePerRow ==
    /\ pc = "import_rows"
          => /\ Len(created_issues) + Len(errors) = row_i
             /\ \A k \in 1..row_i :
                   \/ MapRaises(enrich_result.data[k])
                   \/ \E i \in Requests({"createIssue"}, {"commit"}) :
                         calls[i].row = k + 1
    /\ (pc = "imported" /\ "total_created" \in DOMAIN import_result)
          => /\ Len(import_result.created_issues) + Len(import_result.errors)
                   = Len(enrich_result.data)
             /\ row_i = Len(enrich_result.data)
             /\ import_result.created_issues = created_issues
             /\ import_result.errors = errors

\* C4: in Commit every row produces exactly one outcome, so the Created and
\* the Failed outcomes together are as many as the rows; a failure at a row
\* does not stop the rows after it from being attempted (each gets its
\* createIssue request unless its own mapping raises), and an outcome once
\* recorded is never removed.
C4_PartialFailureIsolation ==
    /\ []C4_OneOutcomePerRow
    /\ [][pc = "import_rows"
            => IsPrefix(created_issues, created_issues') /\ IsPrefix(errors, errors')]_vars

\* C4 witness: Commit returned after the first row failed and the second was
\* created.
C4_Witness ==
    /\ pc = "imported"
    /\ Len(outcomes) = 2
    /\ outcomes[1].kind = "Failed"
    /\ outcomes[2].kind = "Created"

IsCreated(o) == o.kind = "Created"

IsFailed(o) == o.kind = "Failed"

\* The outcomes in the order the report of Commit lists them: its
\* created_issues, then its errors.
ReportOrder == SelectSeq(outcomes, IsCreated) \o SelectSeq(outcomes, IsFailed)

Reported == pc = "imported" /\ "total_created" \in DOMAIN import_result

\* C5 as stated: the outcomes the report of Commit lists, Created and Failed
\* together, are in the order of the rows of the batch.
C5_OutcomesInRowOrder ==
    Reported => \A i \in 1..Len(ReportOrder) : ReportOrder[i].row = i

\* C5 amended: the report of Commit lists the Created outcomes and the Failed
\* outcomes in two lists, and each list is in the order of the rows of the
\* batch: its k-th entry is that of the k-th row with that outcome.
C5_EachListInRowOrder ==
    Reported
        => LET made == SelectSeq(outcomes, IsCreated)
               failed == SelectSeq(outcomes, IsFailed)
               rows == enrich_result.data
           IN  /\ Len(import_result.created_issues) = Len(made)
               /\ Len(import_result.errors) = Len(failed)
               /\ \A i, j \in 1..Len(made) : i < j => made[i].row < made[j].row
               /\ \A i, j \in 1..Len(failed) : i < j => failed[i].row < failed[j].row
               /\ \A i \in 1..Len(made) :
                     import_result.created_issues[i].title
                         = Strip(rows[made[i].row].Title)
               /\ \A i \in 1..Len(failed) :
                     import_result.errors[i].row_title = rows[failed[i].row].Title

\* C5 witness: a report of two Failed outcomes for rows of different titles.
C5_Witness ==
    /\ Reported
    /\ Len(import_result.errors) = 2
    /\ import_result.errors[1].row_title # import_result.errors[2].row_title

\* The labels a Labels cell names: its parts between the separators, trimmed,
\* the empty ones dropped.
NamedLabels(cell) ==
    IF cell = None THEN {}
    ELSE {Strip(cell_part) : cell_part \in Range(Split(cell))} \ {<<>>}

\* C6: the labels of the mapped item are, as a set, the labels the Labels
\* field names (split on ';', trimmed, empty parts dropped) and the project
\* tag 'ask-myuni'; no label is listed twice, and the tag is always there.
C6_MappedLabels ==
    pc = "mapped"
        => /\ Range(issue.labels) = NamedLabels(row.Labels) \cup {<<"ask-myuni">>}
           /\ Cardinality(Range(issue.labels)) = Len(issue.labels)
           /\ <<"ask-myuni">> \in Range(issue.labels)

\* C6 witness: the row with Labels "bug; bug" was mapped.
C6_Witness ==
    /\ pc = "mapped"
    /\ row.Labels = <<"bug", ";", " ", "bug">>
    /\ Len(issue.labels) = 2

\* C7: the labels of an item enriched twice are, as a set, those of the item
\* enriched once, whatever the lookups and the create-label calls answered.
C7_EnrichIdempotent ==
    pc = "enrich_done" => Range(issue.labels) = Range(once)

\* C7 witness: the second of two enrich calls returned after a lookup of it
\* failed and the creation that followed was refused.
C7_Witness ==
    /\ pc = "enrich_done"
    /\ \E i \in Requests({"getLabel"}, {"enrich_2"}) : calls[i].outcome = "failure"
    /\ \E i \in Requests({"createLabel"}, {"enrich_2"}) : calls[i].outcome = "conflict"

AllOps == {"getUser", "getLabel", "createLabel", "createIssue"}

\* C8: the Enrich stage sends only getUser and getLabel requests, and while
\* it runs and when it has returned the labels and the issues of the remote
\* side are what they were.
C8_EnrichReadOnly ==
    /\ \A i \in Requests(AllOps, {"enrich"}) : calls[i].op \in {"getUser", "getLabel"}
    /\ Requests(AllOps, {"commit"}) = {} => remote = remote0
    /\ pc \in {"enrich", "enrich_primary", "enrich_secondary", "enriched"}
          => Requests(AllOps, {"commit"}) = {}

\* C8 witness: Enrich returned after a user lookup and a label lookup that
\* did not find the label.
C8_Witness ==
    /\ pc = "enriched"
    /\ Requests({"getUser"}, {"enrich"}) # {}
    /\ \E i \in Requests({"getLabel"}, {"enrich"}) : calls[i].outcome = "notFound"

\* C9: the findings Enrich adds have severity warn or info, it adds none to
\* the errors, and the valid flag it returns is the one Validate returned.
C9_EnrichNeverBlocks ==
    pc = "enriched"
        => LET v == validate(file).result
           IN  /\ enrich_result.valid = v.valid
               /\ enrich_result.errors = v.errors
               /\ \A i \in 1..Len(enrich_result.warnings) :
                     enrich_result.warnings[i].severity \in {"warn", "info"}

\* C9 witness: Enrich returned a valid result with a warn and an info finding.
C9_Witness ==
    /\ pc = "enriched"
    /\ enrich_result.valid
    /\ \E i, j \in 1..Len(enrich_result.warnings) :
          /\ enrich_result.warnings[i].severity = "warn"
          /\ enrich_result.warnings[j].severity = "info"

\* A finding of the label check for the lookup a request made.
LabelFindingFor(req, severity) ==
    \E j \in 1..Len(enrich_result.warnings) :
        LET w == enrich_result.warnings[j]
        IN  /\ w.field = "Labels"
            /\ w.row = req.row
            /\ w.message.label = req.name
            /\ UrlPart(w.message.repo) = req.repo
            /\ w.severity = severity

\* C10: in the label check of Enrich a lookup that answers not-found makes an
\* info finding for its row, label and repository, and a lookup that fails
\* makes a warn finding.
C10_LookupFindings ==
    pc = "enriched"
        => \A i \in Requests({"getLabel"}, {"enrich"}) :
              /\ calls[i].outcome = "notFound" => LabelFindingFor(calls[i], "info")
              /\ calls[i].outcome = "failure" => LabelFindingFor(calls[i], "warn")

\* The rows of the batch Enrich was given whose assignee lookup answered
\* not-found.
GhostRows ==
    {i \in 1..Len(enrich_result.data) :
        \E c \in Requests({"getUser"}, {"enrich"}) :
            calls[c].row = i + 1 /\ calls[c].outcome = "notFound"}

\* The warn findings of Enrich for the row of number n.
WarnFindings(n) ==
    {j \in 1..Len(enrich_result.warnings) :
        /\ enrich_result.warnings[j].row = n
        /\ enrich_result.warnings[j].severity = "warn"}

MissingColumns == REQUIRED_COLUMNS \ Range(file.fieldnames)

\* The findings of a result that are for row 0.
RowZero(result) == {j \in 1..Len(result.errors) : result.errors[j].row = 0}

\* The data lines of the file that have a cell that is not empty.
NonBlankLines ==
    {k \in 1..Len(file.lines) :
        \E i \in 1..Len(file.lines[k]) : file.lines[k][i] # <<>>}

\* Validate returned for a file that reads and whose header lacks a column.
HeaderLacksColumn ==
    /\ pc = "exit"
    /\ file.fail = 0
    /\ file.fieldnames # <<>>
    /\ MissingColumns # {}

\* The result is invalid with one finding for row 0, which cites the columns
\* the header lacks.
OneHeaderFinding ==
    /\ ~validate_result.valid
    /\ Cardinality(RowZero(validate_result)) = 1
    /\ \A j \in RowZero(validate_result) :
          /\ validate_result.errors[j].field = "headers"
          /\ validate_result.errors[j].message.cols = MissingColumns

\* C12 as stated: when the header lacks a required column, Validate returns
\* valid = false with exactly one finding for row 0 that cites the missing
\* column, and the result holds no data row.
C12_NoDataWhenHeaderInvalid ==
    HeaderLacksColumn
        => /\ OneHeaderFinding
           /\ validate_result.data = <<>>
           /\ validate_result.rows_count = 0

\* C12 amended: when the header of a file that reads lacks a required column,
\* Validate returns valid = false with exactly one finding for row 0 that
\* cites the missing column, and the result holds every data row of the file
\* that is not blank.
C12_DataKeptWhenHeaderInvalid ==
    HeaderLacksColumn
        => /\ OneHeaderFinding
           /\ Len(validate_result.data) = Cardinality(NonBlankLines)
           /\ validate_result.rows_count = Cardinality(NonBlankLines)

\* C12 witness: Validate returned for a file of two rows whose header has no
\* Milestone column.
C12_Witness ==
    /\ HeaderLacksColumn
    /\ MissingColumns = {"Milestone"}
    /\ Len(validate_result.data) = 2

\* The create-label requests of Commit that failed or that the service
\* refused because the repository has the label.
FailedCreations ==
    {c \in Requests({"createLabel"}, {"commit"}) :
        calls[c].outcome \in {"failure", "conflict"}}

\* The labels of the item of a row: those its Labels cell names and the
\* project tag.
ItemLabels(r) == NamedLabels(Get(r, "Labels", <<>>)) \cup {ProjectLabel}

\* C13: a create-label request of Commit that fails, or that the service
\* refuses because the label exists, neither fails its row nor ends the run:
\* every label of the item is looked up, the createIssue request of the row
\* follows with every label of the item, and the row is Failed only when that
\* createIssue request itself fails.
C13_CreateLabelFailureTolerated ==
    /\ Requests(AllOps, {"commit"}) # {} => pc # "crashed"
    /\ \A c \in FailedCreations :
          LET n == calls[c].row
              full == ItemLabels(enrich_result.data[n - 1])
          IN  \E k \in Requests({"createIssue"}, {"commit"}) :
                 /\ k > c
                 /\ calls[k].row = n
                 /\ Range(calls[k].labels) = full
                 /\ Len(calls[k].labels) = Cardinality(full)
                 /\ \A l \in full :
                       \E g \in Requests({"getLabel"}, {"commit"}) :
                          g < k /\ calls[g].row = n /\ calls[g].name = l
                 /\ \E o \in 1..Len(outcomes) :
                       /\ outcomes[o].row = n - 1
                       /\ outcomes[o].kind = "Failed" => calls[k].outcome = "failure"

\* C13 witness: Commit returned with every row Created after a create-label
\* request did not succeed and the lookup of another label of the row followed.
C13_Witness ==
    /\ Reported
    /\ import_result.valid
    /\ \E c \in FailedCreations :
          \E g \in Requests({"getLabel"}, {"commit"}) :
             g > c /\ calls[g].row = calls[c].row

\* The caller declined at the prompt.
Declined == response \notin {NoResponse, EndOfInput} /\ Declines(response)

\* C14 as stated: the exit status of a run that ends is not zero if and only
\* if the Validate or the Enrich result is invalid or the caller declined at
\* the prompt.
C14_ExitStatus ==
    pc = "exit"
        => (exit_code # 0
               <=> \/ ~validate_result.valid
                   \/ enrich_result # NoResult /\ ~enrich_result.valid
                   \/ Declined)

\* C14 amended: the exit status is not zero if and only if the command is
\* import and its Validate result is invalid, or the run ends on an exception
\* nothing catches; it is zero when the caller declines at the prompt, when
\* the validate or the preview command finds the file invalid, and when
\* Commit ran, whatever rows ended as Failed.
C14_ExitStatusOfMain ==
    /\ pc \in {"exit", "crashed"}
          => (exit_code # 0
                 <=> \/ pc = "crashed"
                     \/ args.command = "import" /\ ~validate_result.valid)
    /\ pc \notin {"exit", "crashed"} => exit_code = NoExit
    /\ (pc = "exit" /\ Declined) => exit_code = 0
    /\ (pc = "exit" /\ import_result # NoResult) => exit_code = 0

\* C14 witness: the import command ended with status 0 after Commit reported
\* a Failed row.
C14_Witness ==
    /\ pc = "exit"
    /\ import_result # NoResult
    /\ ~import_result.valid
    /\ Len(import_result.errors) > 0
    /\ exit_code = 0

\* The finding is about the data line of the file that has its row number:
\* that line exists, is not blank, and has the value the finding tells of.
AboutItsLine(e) ==
    /\ e.row - 1 \in NonBlankLines
    /\ LET r == DictRow(file.fieldnames, file.lines[e.row - 1])
       IN  /\ e.field = "Title" => ~Truthy(Strip(Get(r, "Title", <<>>)))
           /\ e.field = "Type"
                 => /\ Get(r, "Type", None) \notin {<<"Epic">>, <<"Task">>}
                    /\ e.message.value = Get(r, "Type", None)

\* C15: every finding Validate returns for a data row carries the number that
\* row has in the file (the header is row 1, the first data line row 2), also
\* when the file has blank rows that the parser skips.
C15_RowNumbersOfFile ==
    pc = "exit"
        => \A j \in 1..Len(validate_result.errors) :
              validate_result.errors[j].row # 0
                  => AboutItsLine(validate_result.errors[j])

\* C16: the report of Commit is valid if and only if no row ended as Failed;
\* its errors are as many as the rows that ended as Failed, its created
\* issues as many as the rows that ended as Created, and total_created is
\* that number.
C16_ReportValidIffNoFailed ==
    Reported
        => LET made == SelectSeq(outcomes, IsCreated)
               failed == SelectSeq(outcomes, IsFailed)
           IN  /\ import_result.valid <=> Len(failed) = 0
               /\ import_result.valid <=> Len(import_result.errors) = 0
               /\ Len(import_result.errors) = Len(failed)
               /\ import_result.total_created = Len(made)
               /\ import_result.total_created = Len(import_result.created_issues)
               /\ Len(remote.issues) = Len(remote0.issues) + Len(made)

\* C16 witness: Commit returned a report of one Created and one Failed row.
C16_Witness ==
    /\ Reported
    /\ ~import_result.valid
    /\ import_result.total_created = 1
    /\ Len(import_result.errors) = 1

\* A step of enrich leaves every field of the item but labels as it was, and
\* its labels the same set.
EnrichKeepsFrame ==
    pc \in {"enrich_1", "enrich_2"}
        => /\ DOMAIN issue' = DOMAIN issue
           /\ \A f \in DOMAIN issue \ {"labels"} : issue'[f] = issue[f]
           /\ Range(issue'.labels) = Range(issue.labels)
           /\ Len(issue'.labels) = Len(issue.labels)

\* C17: a call of enrich changes no field of the item but labels (title,
\* body, assignee, milestone, type and repository are what they were), and
\* the labels after it are, as a set, the labels before it, whatever the
\* lookups and the create-label calls answered.
C17_EnrichFrame == [][EnrichKeepsFrame]_vars

\* C17 witness: enrich returned an item of three labels after one of its
\* create-label requests failed.
C17_Witness ==
    /\ pc = "enrich_2"
    /\ Len(issue.labels) = 3
    /\ \E i \in Requests({"createLabel"}, {"enrich_1"}) : calls[i].outcome = "failure"

CommitCalls == Requests(AllOps, {"commit"})

\* What precedes the createIssue request of index k: it is the last request
\* of its row, and each label it carries was looked up for the row, the
\* create-label request following the lookup at once when the lookup did not
\* find the label.
LabelsSettledBefore(k) ==
    /\ \A j \in CommitCalls : calls[j].row = calls[k].row => j <= k
    /\ \A l \in Range(calls[k].labels) :
          \E g \in Requests({"getLabel"}, {"commit"}) :
             /\ g < k
             /\ calls[g].row = calls[k].row
             /\ calls[g].name = l
             /\ calls[g].outcome # "found"
                   => /\ g + 1 < k
                      /\ calls[g + 1].op = "createLabel"
                      /\ calls[g + 1].stage = "commit"
                      /\ calls[g + 1].row = calls[k].row
                      /\ calls[g + 1].name = l

\* C18: Commit takes the rows one at a time in the order of the batch: its
\* requests are in the order of the rows, with at most one createIssue
\* request a row; before the createIssue request of a row every label of its
\* item was looked up, and created when the lookup did not find it; and a
\* request for a row is sent only when the outcome of every row before it is
\* recorded, the outcomes being recorded in the order of the rows.
C18_RowsOneAtATime ==
    /\ \A i \in CommitCalls :
          i < Len(calls)
              => /\ calls[i + 1].stage = "commit"
                 /\ calls[i].row <= calls[i + 1].row
    /\ \A i, j \in Requests({"createIssue"}, {"commit"}) :
          i < j => calls[i].row < calls[j].row
    /\ \A k \in Requests({"createIssue"}, {"commit"}) : LabelsSettledBefore(k)
    /\ \A j \in CommitCalls : calls[j].row - 2 <= Len(outcomes)
    /\ \A o \in 1..Len(outcomes) : outcomes[o].row = o
    /\ pc \in {"import_rows", "imported"} => Len(outcomes) = row_i

\* C18 witness: Commit returned after the createIssue requests of two rows,
\* a label having been created for the second.
C18_Witness ==
    /\ Reported
    /\ Cardinality(Requests({"createIssue"}, {"commit"})) = 2
    /\ \E c \in Requests({"createLabel"}, {"commit"}) :
          calls[c].row = 3 /\ calls[c].outcome = "created"

\* Two requests of Enrich are the same lookup: for the same row, of the same
\* kind, in the same repository and for the same name.
SameLookup(i, j) ==
    /\ calls[i].op = calls[j].op
    /\ calls[i].row = calls[j].row
    /\ calls[i].repo = calls[j].repo
    /\ calls[i].name = calls[j].name

\* C19: in Enrich the assignee pass runs once and the label pass once for
\* each distinct repository configured, so no lookup is sent twice and no
\* finding is returned twice, also when the primary and the secondary
\* repository have the same name.
C19_OnePassPerRepository ==
    (pc = "enriched" /\ enrich_result.valid)
        => /\ \A i, j \in Requests({"getUser", "getLabel"}, {"enrich"}) :
                 SameLookup(i, j) => i = j
           /\ \A i, j \in 1..Len(enrich_result.warnings) :
                 enrich_result.warnings[i] = enrich_result.warnings[j] => i = j

\* The findings of Validate for the row at position i of the batch (its
\* number is i + 1) on a field.
FieldErrors(i, field) ==
    {j \in 1..Len(validate_result.errors) :
        /\ validate_result.errors[j].row = i + 1
        /\ validate_result.errors[j].field = field}

C21_NoLookupForEmptyNames ==
    (pc = "enriched" /\ enrich_result.valid)
        => /\ \A c \in Requests({"getUser", "getLabel"}, {"enrich"}) :
                 /\ calls[c].name # <<>>
                 /\ calls[c].op = "getLabel"
                       => Strip(enrich_result.data[calls[c].row - 1].Labels) # <<>>
                 /\ calls[c].op = "getUser"
                       => Strip(enrich_result.data[calls[c].row - 1].Assignee) # <<>>
           /\ \A j \in 1..Len(enrich_result.warnings) :
                 enrich_result.warnings[j].field = "Labels"
                     => enrich_result.warnings[j].message.label # <<>>

\* The repository of a row as the claim resolves it: the Repository value of
\* the row when it gives one that is not empty, the configured default
\* otherwise (None when none is configured).
Resolved(r) ==
    IF "Repository" \in DOMAIN r /\ r.Repository \notin {None, <<>>}
    THEN r.Repository
    ELSE config.default

\* C22: every request Commit sends for a row (label lookup, label creation,
\* createIssue) names the repository resolved for the row, the row's own
\* Repository value when it is not empty and the configured default
\* otherwise; the item of the row has that repository as its target, the
\* issue created is in it, and Preview prints it for the row.
C22_TargetRepository ==
    /\ \A c \in CommitCalls :
          calls[c].repo = UrlPart(Resolved(enrich_result.data[calls[c].row - 1]))
    /\ (pc \in {"import_rows", "imported"} /\ row_i > 0 /\ ~MapRaises(row))
          => /\ row = enrich_result.data[row_i]
             /\ issue.repository = Resolved(row)
    /\ \A i \in (Len(remote0.issues) + 1)..Len(remote.issues) :
          \E c \in Requests({"createIssue"}, {"commit"}) :
             /\ calls[c].outcome = "created"
             /\ calls[c].name = remote.issues[i].title
             /\ remote.issues[i].repo = calls[c].repo
    /\ (pc = "exit" /\ args.command = "preview" /\ validate_result.valid)
          => /\ Len(stdout) = Len(validate_result.data) + 1
             /\ \A i \in 1..Len(validate_result.data) :
                   stdout[i + 1].repo = Resolved(validate_result.data[i])

\* C22 witness: with r1 the configured default, Commit returned after it
\* created a label and the issue of a row in the repository r2 the row names,
\* and the issue of a row that names none in r1.
C22_Witness ==
    /\ Reported
    /\ config.default = <<"r1">>
    /\ \E c \in Requests({"createLabel"}, {"commit"}) :
          /\ calls[c].repo = <<"r2">>
          /\ enrich_result.data[calls[c].row - 1].Repository = <<"r2">>
    /\ \E c, k \in Requests({"createIssue"}, {"commit"}) :
          /\ calls[c].repo = <<"r2">>
          /\ calls[k].repo = <<"r1">>
          /\ enrich_result.data[calls[k].row - 1].Repository = <<>>

\* The create-label requests of Commit.
Creations == Requests({"createLabel"}, {"commit"})

\* C23: in a run in which no request has failed, Commit sends at most one
\* create-label request for a repository and a label, whatever the number of
\* rows that name the label, and none for a label the repository had when the
\* run began; each such request creates its label, and the labels of the
\* remote side are those it had and those created.
C23_CreateLabelAtMostOnce ==
    faults = 0
        => /\ \A i, j \in Creations :
                 (calls[i].repo = calls[j].repo /\ calls[i].name = calls[j].name)
                     => i = j
           /\ \A i \in Creations :
                 /\ <<calls[i].repo, calls[i].name>> \notin remote0.labels
                 /\ calls[i].outcome = "created"
           /\ remote.labels
                 = remote0.labels
                      \cup {<<calls[i].repo, calls[i].name>> : i \in Creations}

\* C23 witness: Commit returned, no request having failed, for two rows that
\* name the label bug for the same repository, which did not have it: the
\* label was created for the first row and found for the second.
C23_Witness ==
    /\ Reported
    /\ faults = 0
    /\ \E i \in Creations :
          /\ calls[i].name = <<"bug">>
          /\ calls[i].row = 2
          /\ \E g \in Requests({"getLabel"}, {"commit"}) :
                /\ calls[g].row = 3
                /\ calls[g].name = <<"bug">>
                /\ calls[g].repo = calls[i].repo
                /\ calls[g].outcome = "found"

====
